---------------------------- MODULE Spec2Model ----------------------------
(***************************************************************************)
(* RecastXZ: the bridge of src/lib.rs between two foreign callers (the     *)
(* JNI surface and the C-ABI surface) and the libdeflater engine.          *)
(*                                                                         *)
(* State: the heap of boxed contexts, the caller's memory, the record of   *)
(* the last call (the internal outcome, the value returned, the exception  *)
(* left pending in the JNI environment), and, for calls that overlap in    *)
(* time, the frame of each thread and the engine state of each context.    *)
(***************************************************************************)
EXTENDS Integers, Sequences, FiniteSets, TLC

VARIABLES heap, mem, last, rt, thr, work

vars == <<heap, mem, last, rt, thr, work>>

(***************************************************************************)
(* Bounds of the model.                                                    *)
(***************************************************************************)
\* number of addresses the allocator can hand out for boxed contexts
MaxCtx == 2
\* longest payload the caller compresses
MaxLen == 1

(***************************************************************************)
(* Values.                                                                 *)
(***************************************************************************)
\* the null pointer / the zero jlong
NULL == 0
\* jni::sys::JNI_TRUE and JNI_FALSE (jboolean is u8)
JNI_TRUE == 1
JNI_FALSE == 0
\* c_int / jint is i32
INT_MAX == 2147483647

Handles == 1..MaxCtx
\* the memory of one caller: a payload buffer of MaxLen bytes at address 1
\* and, behind it, a stream buffer that holds the stream of any such payload
PayloadBuf == NULL + 1
StreamBuf == MaxLen + 1
MemSize == 2 * MaxLen + 2
Addrs == 1..MemSize
\* bytes are abstracted to two values
Byte == {0, 1}

\* libdeflater's accepted range of CompressionLvl::new
MinLevel == 0
MaxLevel == 12
\* the levels the callers try: both ends of the range and one past each
TestLevels == {MinLevel - 1, MinLevel, MaxLevel, MaxLevel + 1}

\* a heap cell that holds no context
NoContext == [kind |-> "none", level |-> 0]
\* struct DeflateContext { compressor }, configured with its level
DeflateContext(lvl) == [kind |-> "deflate", level |-> lvl]
\* struct InflateContext { decompressor }
InflateContext == [kind |-> "inflate", level |-> 0]

NoException == [class |-> "", msg |-> ""]
Exception(c, m) == [class |-> c, msg |-> m]

(***************************************************************************)
(* Casts at the boundary.                                                  *)
(***************************************************************************)
\* `x as usize` of a c_int / jint: a negative x wraps to 2^64 + x, which is
\* kept symbolic (it is above every length the model can hold)
AsUsize(x) == IF x >= 0 THEN x ELSE [wrapped |-> x]
\* `sz as c_int` / `size as jint` of a usize: truncation to 32 bits
AsCInt(sz) == IF sz <= INT_MAX THEN sz ELSE ((sz - INT_MAX) - INT_MAX) - 2

(***************************************************************************)
(* Caller memory and the borrowed views of it.                             *)
(***************************************************************************)
\* std::slice::from_raw_parts(ptr, len): the bytes [ptr, ptr+len)
from_raw_parts(m, ptr, len) == [i \in 1..len |-> m[ptr + i - 1]]
\* the engine's writes through from_raw_parts_mut(ptr, ..): out lands at ptr
write_slice(m, ptr, out) ==
    [a \in DOMAIN m |-> IF a >= ptr /\ a < ptr + Len(out) THEN out[a - ptr + 1] ELSE m[a]]

\* The contract of the unsafe process functions: both regions lie in memory
\* the caller owns, with accurate lengths, and do not overlap.
ValidRegions(src, slen, dst, dlen) ==
    /\ slen \in 0..MemSize /\ dlen \in 0..MemSize
    /\ src \in Addrs /\ dst \in Addrs
    /\ src + slen - 1 <= MemSize
    /\ dst + dlen - 1 <= MemSize
    /\ (src + slen <= dst \/ dst + dlen <= src)

(***************************************************************************)
(* The engine (libdeflater), an opaque capability to the bridge.  It is    *)
(* modelled as a one-shot zlib-like codec: a header byte, the payload and  *)
(* a checksum byte.                                                        *)
(***************************************************************************)
RECURSIVE Sum(_)
Sum(s) == IF s = <<>> THEN 0 ELSE Head(s) + Sum(Tail(s))

\* the checksum that closes a stream
Checksum(s) == Sum(s) % Cardinality(Byte)
\* the header that opens a stream
StreamHeader == <<1>>
\* the complete stream of a payload
ZlibStream(s) == StreamHeader \o s \o <<Checksum(s)>>
Prefix(s, n) == SubSeq(s, 1, IF n < Len(s) THEN n ELSE Len(s))

\* Compressor::zlib_compress(source, dest): Ok(sz) with the stream written to
\* dest, or Err(InsufficientSpace) when dest cannot hold it (what fits of
\* the stream may have been written by then)
zlib_compress(context, source_slice, dest_len) ==
    LET z == ZlibStream(source_slice)
    IN  IF Len(z) <= dest_len
        THEN [ok |-> TRUE, sz |-> Len(z), err |-> "", out |-> z]
        ELSE [ok |-> FALSE, sz |-> 0, err |-> "InsufficientSpace", out |-> Prefix(z, dest_len)]

\* Decompressor::zlib_decompress(source, dest): Ok(n) with the n payload bytes
\* written to dest, Err(BadData) for a bad header or checksum,
\* Err(InsufficientSpace) when dest cannot hold the payload
zlib_decompress(context, source_slice, dest_len) ==
    IF Len(source_slice) < 2 \/ Prefix(source_slice, 1) # StreamHeader
    THEN [ok |-> FALSE, sz |-> 0, err |-> "BadData", out |-> <<>>]
    ELSE LET payload == SubSeq(source_slice, 2, Len(source_slice) - 1)
         IN  IF Len(payload) > dest_len
             THEN [ok |-> FALSE, sz |-> 0, err |-> "InsufficientSpace",
                   out |-> Prefix(payload, dest_len)]
             ELSE IF Checksum(payload) # source_slice[Len(source_slice)]
             THEN [ok |-> FALSE, sz |-> 0, err |-> "BadData", out |-> payload]
             ELSE [ok |-> TRUE, sz |-> Len(payload), err |-> "", out |-> payload]

\* CompressionLvl::new(level) is Ok
CompressionLvl_new(level) == level >= MinLevel /\ level <= MaxLevel

\* what the engine reported to the bridge: "Ok" or the error's name ("none"
\* stands for a call that never reached the engine)
Report(r) == IF r.ok THEN "Ok" ELSE r.err

(***************************************************************************)
(* The shared core: lib.rs lines 29-85.                                    *)
(***************************************************************************)
\* Box::into_raw(Box::new(c)): the context lands at a free address
Box_new(h, addr, c) == [h EXCEPT ![addr] = c]
\* drop(Box::from_raw(ctx)): the address is free again
Box_from_raw(h, ctx) == [h EXCEPT ![ctx] = NoContext]
\* the addresses the allocator may hand out
FreeAddrs(h) == {a \in Handles : h[a] = NoContext}
Live(h) == {a \in Handles : h[a] # NoContext}
LiveOf(h, k) == {a \in Handles : h[a].kind = k}

\* Fault variant of Deref: every pointer designates one static context.
Deref_static(ctx) == 1

\* `&mut *ctx`: the heap cell a context pointer designates
Deref(ctx) == ctx

\* Fault variant of deflate_init: the upper end of the range is not checked.
deflate_init_unchecked(h, level, addr) ==
    IF level >= MinLevel
    THEN [some |-> TRUE, ptr |-> addr, heap |-> Box_new(h, addr, DeflateContext(level))]
    ELSE [some |-> FALSE, ptr |-> NULL, heap |-> h]

\* Fault variant of deflate_init: the context is boxed before the level is
\* checked and is not dropped when the level is refused.
deflate_init_leak(h, level, addr) ==
    IF CompressionLvl_new(level)
    THEN [some |-> TRUE, ptr |-> addr, heap |-> Box_new(h, addr, DeflateContext(level))]
    ELSE [some |-> FALSE, ptr |-> NULL, heap |-> Box_new(h, addr, DeflateContext(MaxLevel))]

\* fn deflate_init(level) -> Option<*mut DeflateContext>
deflate_init(h, level, addr) ==
    IF CompressionLvl_new(level)
    THEN [some |-> TRUE, ptr |-> addr, heap |-> Box_new(h, addr, DeflateContext(level))]
    ELSE [some |-> FALSE, ptr |-> NULL, heap |-> h]

\* Fault variant of deflate_result: an engine error becomes DeflateResult::Error.
deflate_result_error(m, dest_ptr, r) ==
    IF r.ok
    THEN [result |-> "Success", size |-> r.sz,
          mem |-> write_slice(m, dest_ptr, r.out), engine |-> Report(r)]
    ELSE [result |-> "Error", size |-> 0,
          mem |-> write_slice(m, dest_ptr, r.out), engine |-> Report(r)]

\* the match on zlib_compress's result that ends deflate_process
deflate_result(m, dest_ptr, r) ==
    IF r.ok
    THEN [result |-> "Success", size |-> r.sz,
          mem |-> write_slice(m, dest_ptr, r.out), engine |-> Report(r)]
    ELSE [result |-> "InsufficientSpace", size |-> 0,
          mem |-> write_slice(m, dest_ptr, r.out), engine |-> Report(r)]

\* Fault variant of deflate_process: the null handle is reported as a
\* destination that is too small.
deflate_process_null_nospace(h, m, ctx, source_ptr, source_len, dest_ptr, dest_len) ==
    IF ctx = NULL
    THEN [result |-> "InsufficientSpace", size |-> 0, mem |-> m, engine |-> "none"]
    ELSE deflate_result(m, dest_ptr,
             zlib_compress(h[ctx], from_raw_parts(m, source_ptr, source_len), dest_len))

\* unsafe fn deflate_process(ctx, source_ptr, source_len, dest_ptr, dest_len)
deflate_process(h, m, ctx, source_ptr, source_len, dest_ptr, dest_len) ==
    IF ctx = NULL
    THEN [result |-> "Error", size |-> 0, mem |-> m, engine |-> "none"]
    ELSE LET context == h[Deref(ctx)]
             source_slice == from_raw_parts(m, source_ptr, source_len)
         IN  deflate_result(m, dest_ptr, zlib_compress(context, source_slice, dest_len))

\* the match on zlib_decompress's result that ends inflate_process
inflate_result(m, dest_ptr, r) ==
    LET m2 == write_slice(m, dest_ptr, r.out)
    IN  CASE r.ok -> [result |-> "Success", size |-> 0, mem |-> m2, engine |-> Report(r)]
          [] ~r.ok /\ r.err = "InsufficientSpace" ->
                 [result |-> "InsufficientSpace", size |-> 0, mem |-> m2, engine |-> Report(r)]
          [] ~r.ok /\ r.err = "BadData" ->
                 [result |-> "BadData", size |-> 0, mem |-> m2, engine |-> Report(r)]
          [] OTHER -> [result |-> "Error", size |-> 0, mem |-> m2, engine |-> Report(r)]

\* Fault variant of inflate_process: the source view is built with the
\* length of the destination.
inflate_process_wrong_len(h, m, ctx, source_ptr, source_len, dest_ptr, dest_len) ==
    IF ctx = NULL
    THEN [result |-> "Error", size |-> 0, mem |-> m, engine |-> "none"]
    ELSE inflate_result(m, dest_ptr,
             zlib_decompress(h[ctx], from_raw_parts(m, source_ptr, dest_len), dest_len))

\* unsafe fn inflate_process(ctx, source_ptr, source_len, dest_ptr, dest_len)
inflate_process(h, m, ctx, source_ptr, source_len, dest_ptr, dest_len) ==
    IF ctx = NULL
    THEN [result |-> "Error", size |-> 0, mem |-> m, engine |-> "none"]
    ELSE LET context == h[Deref(ctx)]
             source_slice == from_raw_parts(m, source_ptr, source_len)
         IN  inflate_result(m, dest_ptr, zlib_decompress(context, source_slice, dest_len))

(***************************************************************************)
(* The result translators: the match that ends each process entry point,   *)
(* from the internal outcome to the value returned and the exception left  *)
(* pending.                                                                *)
(***************************************************************************)
\* Fault variant of NativeZlibDeflate_translate: the C-ABI's -1 for Error.
NativeZlibDeflate_translate_minus1(res) ==
    CASE res.result = "Success" -> [ret |-> AsCInt(res.size), exc |-> NoException]
      [] res.result = "InsufficientSpace" -> [ret |-> 0, exc |-> NoException]
      [] res.result = "Error" -> [ret |-> -1, exc |-> NoException]

\* lib.rs lines 135-139
NativeZlibDeflate_translate(res) ==
    CASE res.result = "Success" -> [ret |-> AsCInt(res.size), exc |-> NoException]
      [] res.result = "InsufficientSpace" -> [ret |-> 0, exc |-> NoException]
      [] res.result = "Error" -> [ret |-> 0, exc |-> NoException]

\* Fault variant of NativeZlibInflate_translate: the messages of BadData and
\* InsufficientSpace are exchanged.
NativeZlibInflate_translate_swapped(res) ==
    CASE res.result = "Success" -> [ret |-> JNI_TRUE, exc |-> NoException]
      [] res.result = "BadData" ->
             [ret |-> JNI_FALSE,
              exc |-> Exception("java/util/zip/DataFormatException",
                                "uncompressed size is inaccurate")]
      [] res.result = "InsufficientSpace" ->
             [ret |-> JNI_FALSE,
              exc |-> Exception("java/util/zip/DataFormatException", "inflate data is bad")]
      [] res.result = "Error" ->
             [ret |-> JNI_FALSE,
              exc |-> Exception("java/util/zip/DataFormatException",
                                "unknown libdeflate return code")]

\* lib.rs lines 181-201
NativeZlibInflate_translate(res) ==
    CASE res.result = "Success" -> [ret |-> JNI_TRUE, exc |-> NoException]
      [] res.result = "BadData" ->
             [ret |-> JNI_FALSE,
              exc |-> Exception("java/util/zip/DataFormatException", "inflate data is bad")]
      [] res.result = "InsufficientSpace" ->
             [ret |-> JNI_FALSE,
              exc |-> Exception("java/util/zip/DataFormatException",
                                "uncompressed size is inaccurate")]
      [] res.result = "Error" ->
             [ret |-> JNI_FALSE,
              exc |-> Exception("java/util/zip/DataFormatException",
                                "unknown libdeflate return code")]

\* lib.rs lines 231-235
rxz_deflate_translate(res) ==
    CASE res.result = "Success" -> [ret |-> AsCInt(res.size), exc |-> NoException]
      [] res.result = "InsufficientSpace" -> [ret |-> 0, exc |-> NoException]
      [] res.result = "Error" -> [ret |-> -1, exc |-> NoException]

\* Fault variant of rxz_inflate_translate: the codes of InsufficientSpace and
\* BadData are exchanged.
rxz_inflate_translate_swapped(res) ==
    CASE res.result = "Success" -> [ret |-> 0, exc |-> NoException]
      [] res.result = "InsufficientSpace" -> [ret |-> 2, exc |-> NoException]
      [] res.result = "BadData" -> [ret |-> 1, exc |-> NoException]
      [] res.result = "Error" -> [ret |-> 3, exc |-> NoException]

\* lib.rs lines 267-272
rxz_inflate_translate(res) ==
    CASE res.result = "Success" -> [ret |-> 0, exc |-> NoException]
      [] res.result = "InsufficientSpace" -> [ret |-> 1, exc |-> NoException]
      [] res.result = "BadData" -> [ret |-> 2, exc |-> NoException]
      [] res.result = "Error" -> [ret |-> 3, exc |-> NoException]

\* what a process entry point leaves: the memory, the internal outcome and
\* what the translator t made of it
Returned(res, t) ==
    [mem |-> res.mem, outcome |-> res.result, size |-> res.size, engine |-> res.engine,
     ret |-> t.ret, exc |-> t.exc]

(***************************************************************************)
(* The managed (JNI) surface: lib.rs lines 87-202.                         *)
(***************************************************************************)
Java_com_velocitypowered_natives_compression_NativeZlibDeflate_init(h, level, addr) ==
    LET r == deflate_init(h, level, addr)
    IN  IF r.some
        THEN [heap |-> r.heap, ret |-> r.ptr, exc |-> NoException]
        ELSE [heap |-> r.heap, ret |-> 0,
              exc |-> Exception("java/lang/OutOfMemoryError", "libdeflate allocate compressor")]

Java_com_velocitypowered_natives_compression_NativeZlibDeflate_free(h, ctx) ==
    IF ctx # 0 THEN Box_from_raw(h, ctx) ELSE h

Java_com_velocitypowered_natives_compression_NativeZlibDeflate_process(h, m, ctx, source_address, source_length, destination_address, destination_length) ==
    LET res == deflate_process(h, m, ctx, source_address, AsUsize(source_length),
                               destination_address, AsUsize(destination_length))
    IN  Returned(res, NativeZlibDeflate_translate(res))

Java_com_velocitypowered_natives_compression_NativeZlibInflate_init(h, addr) ==
    [heap |-> Box_new(h, addr, InflateContext), ret |-> addr, exc |-> NoException]

\* Fault variant of NativeZlibInflate.free: no check for the zero handle, and
\* the drop of the null box takes a live context with it.
Java_com_velocitypowered_natives_compression_NativeZlibInflate_free_unchecked(h, ctx) ==
    IF ctx # 0 THEN Box_from_raw(h, ctx)
    ELSE IF Live(h) # {} THEN Box_from_raw(h, CHOOSE a \in Live(h) : TRUE) ELSE h

Java_com_velocitypowered_natives_compression_NativeZlibInflate_free(h, ctx) ==
    IF ctx # 0 THEN Box_from_raw(h, ctx) ELSE h

Java_com_velocitypowered_natives_compression_NativeZlibInflate_process(h, m, ctx, source_address, source_length, destination_address, destination_length) ==
    LET res == inflate_process(h, m, ctx, source_address, AsUsize(source_length),
                               destination_address, AsUsize(destination_length))
    IN  Returned(res, NativeZlibInflate_translate(res))

(***************************************************************************)
(* The C-ABI surface: lib.rs lines 204-273.                                *)
(***************************************************************************)
rxz_deflate_init(h, level, addr) ==
    LET r == deflate_init(h, level, addr)
    IN  [heap |-> r.heap, ret |-> IF r.some THEN r.ptr ELSE NULL, exc |-> NoException]

rxz_deflate_free(h, ctx) ==
    IF ctx # NULL THEN Box_from_raw(h, ctx) ELSE h

rxz_deflate_process(h, m, ctx, source, source_length, destination, destination_length) ==
    LET res == deflate_process(h, m, ctx, source, AsUsize(source_length),
                               destination, AsUsize(destination_length))
    IN  Returned(res, rxz_deflate_translate(res))

rxz_inflate_init(h, addr) ==
    [heap |-> Box_new(h, addr, InflateContext), ret |-> addr, exc |-> NoException]

rxz_inflate_free(h, ctx) ==
    IF ctx # NULL THEN Box_from_raw(h, ctx) ELSE h

rxz_inflate_process(h, m, ctx, source, source_length, destination, destination_length) ==
    LET res == inflate_process(h, m, ctx, source, AsUsize(source_length),
                               destination, AsUsize(destination_length))
    IN  Returned(res, rxz_inflate_translate(res))

(***************************************************************************)
(* The callers.  A call on a live handle keeps the contract of the unsafe  *)
(* entry points (a handle of the right kind that was not freed, valid      *)
(* regions); a call on the null handle may pass anything.                  *)
(***************************************************************************)
\* a prefix of one of the caller's two buffers as source, a prefix of the
\* other as destination
ValidCalls ==
    {a \in {PayloadBuf, StreamBuf} \X (0..MemSize) \X {PayloadBuf, StreamBuf} \X (0..MemSize) :
        a[1] # a[3] /\ ValidRegions(a[1], a[2], a[3], a[4])}
\* negative lengths, overlapping regions, addresses outside the memory
BogusCalls == {<<0, -1, 0, -1>>, <<1, MemSize, 1, MemSize>>, <<MemSize + 1, 1, 0, 0>>}
\* the calls of a caller that only moves whole buffers: compress the payload
\* buffer into the stream buffer, or into nothing, and decompress it back
WholeBufferCalls ==
    {<<PayloadBuf, MaxLen, StreamBuf, MaxLen + 2>>, <<PayloadBuf, MaxLen, StreamBuf, 0>>,
     <<StreamBuf, MaxLen + 2, PayloadBuf, MaxLen>>}
\* what the callers pass along with the null handle
NullCalls == BogusCalls \cup WholeBufferCalls
AllCalls == ValidCalls \cup NullCalls
\* whether a caller may pass arguments a along with handle ctx
MayCall(ctx, a) == IF ctx = NULL THEN a \in NullCalls ELSE a \in ValidCalls

\* the record of a call
Called(op, ctx, level, outcome, size, engine, dlen, ret, exc) ==
    [op |-> op, ctx |-> ctx, level |-> level, dlen |-> dlen,
     outcome |-> outcome, size |-> size, engine |-> engine, ret |-> ret, exc |-> exc]
\* the record of a call that is not a process call
CalledPlain(op, ctx, level, ret, exc) == Called(op, ctx, level, "", 0, "none", 0, ret, exc)
\* the record of a process call that left r
CalledProcess(op, ctx, a, r) ==
    Called(op, ctx, 0, r.outcome, r.size, r.engine, a[4], r.ret, r.exc)

\* History of the last successful compression: the bytes S that were
\* compressed and the region [addr, addr+n) that holds the n bytes returned,
\* for as long as that region is not written again; back is set by the call
\* that decompresses exactly that region into a destination declared with
\* Len(S) bytes, and out is what that call left in its destination.
NoRoundTrip == [S |-> <<>>, addr |-> 0, n |-> 0, back |-> FALSE, out |-> <<>>]
KeepRoundTrip(m2) ==
    IF rt.n > 0 /\ from_raw_parts(m2, rt.addr, rt.n) = from_raw_parts(mem, rt.addr, rt.n)
    THEN [rt EXCEPT !.back = FALSE, !.out = <<>>] ELSE NoRoundTrip
Compressed(a, r) ==
    IF r.outcome = "Success" /\ r.ret > 0
    THEN [S |-> from_raw_parts(mem, a[1], a[2]), addr |-> a[3], n |-> r.ret,
          back |-> FALSE, out |-> <<>>]
    ELSE KeepRoundTrip(r.mem)
Decompressed(ctx, a, r) ==
    IF ctx # NULL /\ rt.n > 0 /\ a[1] = rt.addr /\ a[2] = rt.n /\ a[4] = Len(rt.S)
    THEN [rt EXCEPT !.back = TRUE, !.out = from_raw_parts(r.mem, a[3], a[4])]
    ELSE KeepRoundTrip(r.mem)

\* the threads of the callers, and the frame of a thread that holds no context
Threads == {1, 2}
NoResult == [ret |-> 0, exc |-> NoException, out |-> <<>>]
NoFrame == [pc |-> "none", ctx |-> NULL, op |-> "", a |-> <<0, 0, 0, 0>>,
            expect |-> NoResult, got |-> NoResult]

Init ==
    /\ heap = [a \in Handles |-> NoContext]
    /\ mem = [a \in Addrs |-> 0]
    /\ last = CalledPlain("none", NULL, 0, 0, NoException)
    /\ rt = NoRoundTrip
    /\ thr = [t \in Threads |-> NoFrame]
    /\ work = [a \in Handles |-> <<>>]

\* the caller fills one byte of a buffer it owns
CallerWrite ==
    \E a \in Addrs, b \in Byte :
        /\ mem' = [mem EXCEPT ![a] = b]
        /\ last' = CalledPlain("write", NULL, 0, 0, NoException)
        /\ rt' = KeepRoundTrip(mem')
        /\ UNCHANGED <<heap, thr, work>>

NativeZlibDeflate_init ==
    \E level \in TestLevels, addr \in FreeAddrs(heap) :
        LET r == Java_com_velocitypowered_natives_compression_NativeZlibDeflate_init(heap, level, addr)
        IN  /\ heap' = r.heap
            /\ last' = CalledPlain("NativeZlibDeflate.init", NULL, level, r.ret, r.exc)
            /\ rt' = KeepRoundTrip(mem)
            /\ UNCHANGED <<mem, thr, work>>

NativeZlibDeflate_free ==
    \E ctx \in {0} \cup LiveOf(heap, "deflate") :
        /\ heap' = Java_com_velocitypowered_natives_compression_NativeZlibDeflate_free(heap, ctx)
        /\ last' = CalledPlain("NativeZlibDeflate.free", ctx, 0, 0, NoException)
        /\ rt' = KeepRoundTrip(mem)
        /\ UNCHANGED <<mem, thr, work>>

NativeZlibDeflate_process(Calls) ==
    \E ctx \in {0} \cup LiveOf(heap, "deflate"), a \in Calls :
        /\ MayCall(ctx, a)
        /\ LET r == Java_com_velocitypowered_natives_compression_NativeZlibDeflate_process(heap, mem, ctx, a[1], a[2], a[3], a[4])
           IN  /\ mem' = r.mem
               /\ last' = CalledProcess("NativeZlibDeflate.process", ctx, a, r)
               /\ rt' = Compressed(a, r)
               /\ UNCHANGED <<heap, thr, work>>

NativeZlibInflate_init ==
    \E addr \in FreeAddrs(heap) :
        LET r == Java_com_velocitypowered_natives_compression_NativeZlibInflate_init(heap, addr)
        IN  /\ heap' = r.heap
            /\ last' = CalledPlain("NativeZlibInflate.init", NULL, 0, r.ret, r.exc)
            /\ rt' = KeepRoundTrip(mem)
            /\ UNCHANGED <<mem, thr, work>>

NativeZlibInflate_free ==
    \E ctx \in {0} \cup LiveOf(heap, "inflate") :
        /\ heap' = Java_com_velocitypowered_natives_compression_NativeZlibInflate_free(heap, ctx)
        /\ last' = CalledPlain("NativeZlibInflate.free", ctx, 0, 0, NoException)
        /\ rt' = KeepRoundTrip(mem)
        /\ UNCHANGED <<mem, thr, work>>

NativeZlibInflate_process(Calls) ==
    \E ctx \in {0} \cup LiveOf(heap, "inflate"), a \in Calls :
        /\ MayCall(ctx, a)
        /\ LET r == Java_com_velocitypowered_natives_compression_NativeZlibInflate_process(heap, mem, ctx, a[1], a[2], a[3], a[4])
           IN  /\ mem' = r.mem
               /\ last' = CalledProcess("NativeZlibInflate.process", ctx, a, r)
               /\ rt' = Decompressed(ctx, a, r)
               /\ UNCHANGED <<heap, thr, work>>

Rxz_deflate_init ==
    \E level \in TestLevels, addr \in FreeAddrs(heap) :
        LET r == rxz_deflate_init(heap, level, addr)
        IN  /\ heap' = r.heap
            /\ last' = CalledPlain("rxz_deflate_init", NULL, level, r.ret, r.exc)
            /\ rt' = KeepRoundTrip(mem)
            /\ UNCHANGED <<mem, thr, work>>

Rxz_deflate_free ==
    \E ctx \in {NULL} \cup LiveOf(heap, "deflate") :
        /\ heap' = rxz_deflate_free(heap, ctx)
        /\ last' = CalledPlain("rxz_deflate_free", ctx, 0, 0, NoException)
        /\ rt' = KeepRoundTrip(mem)
        /\ UNCHANGED <<mem, thr, work>>

Rxz_deflate_process(Calls) ==
    \E ctx \in {NULL} \cup LiveOf(heap, "deflate"), a \in Calls :
        /\ MayCall(ctx, a)
        /\ LET r == rxz_deflate_process(heap, mem, ctx, a[1], a[2], a[3], a[4])
           IN  /\ mem' = r.mem
               /\ last' = CalledProcess("rxz_deflate_process", ctx, a, r)
               /\ rt' = Compressed(a, r)
               /\ UNCHANGED <<heap, thr, work>>

Rxz_inflate_init ==
    \E addr \in FreeAddrs(heap) :
        LET r == rxz_inflate_init(heap, addr)
        IN  /\ heap' = r.heap
            /\ last' = CalledPlain("rxz_inflate_init", NULL, 0, r.ret, r.exc)
            /\ rt' = KeepRoundTrip(mem)
            /\ UNCHANGED <<mem, thr, work>>

Rxz_inflate_free ==
    \E ctx \in {NULL} \cup LiveOf(heap, "inflate") :
        /\ heap' = rxz_inflate_free(heap, ctx)
        /\ last' = CalledPlain("rxz_inflate_free", ctx, 0, 0, NoException)
        /\ rt' = KeepRoundTrip(mem)
        /\ UNCHANGED <<mem, thr, work>>

Rxz_inflate_process(Calls) ==
    \E ctx \in {NULL} \cup LiveOf(heap, "inflate"), a \in Calls :
        /\ MayCall(ctx, a)
        /\ LET r == rxz_inflate_process(heap, mem, ctx, a[1], a[2], a[3], a[4])
           IN  /\ mem' = r.mem
               /\ last' = CalledProcess("rxz_inflate_process", ctx, a, r)
               /\ rt' = Decompressed(ctx, a, r)
               /\ UNCHANGED <<heap, thr, work>>

(***************************************************************************)
(* Spec: the life cycle.  Contexts are created, used and freed through     *)
(* all twelve entry points by callers that move whole buffers.             *)
(***************************************************************************)
Next ==
    \/ NativeZlibDeflate_init
    \/ NativeZlibDeflate_free
    \/ NativeZlibDeflate_process(NullCalls)
    \/ NativeZlibInflate_init
    \/ NativeZlibInflate_free
    \/ NativeZlibInflate_process(NullCalls)
    \/ Rxz_deflate_init
    \/ Rxz_deflate_free
    \/ Rxz_deflate_process(NullCalls)
    \/ Rxz_inflate_init
    \/ Rxz_inflate_free
    \/ Rxz_inflate_process(NullCalls)

Spec == Init /\ [][Next]_vars

(***************************************************************************)
(* SpecData: the data path.  One compression and one decompression         *)
(* context are live; the caller writes its buffers byte by byte and passes *)
(* every prefix of them to the four process entry points.                  *)
(***************************************************************************)
InitData ==
    /\ \E level \in {l \in TestLevels : CompressionLvl_new(l)} :
           heap = [a \in Handles |-> IF a = 1 THEN DeflateContext(level)
                                     ELSE IF a = 2 THEN InflateContext ELSE NoContext]
    /\ mem = [a \in Addrs |-> 0]
    /\ last = CalledPlain("none", NULL, 0, 0, NoException)
    /\ rt = NoRoundTrip
    /\ thr = [t \in Threads |-> NoFrame]
    /\ work = [a \in Handles |-> <<>>]

NextData ==
    \/ CallerWrite
    \/ NativeZlibDeflate_process(AllCalls)
    \/ NativeZlibInflate_process(AllCalls)
    \/ Rxz_deflate_process(AllCalls)
    \/ Rxz_inflate_process(AllCalls)

SpecData == InitData /\ [][NextData]_vars

(***************************************************************************)
(* SpecConc: two threads, each with a context of its own and buffers of    *)
(* its own, whose calls overlap in time.  A process call takes two steps:  *)
(* it enters (the null check, the borrowed views, the engine taking up the *)
(* source into the state of the context it was handed) and it returns (the *)
(* engine writing the destination from that state, the outcome being       *)
(* translated).  Steps of the other thread may fall between the two.       *)
(***************************************************************************)
\* the memory of thread t lies behind that of the threads before it
ThreadBase(t) == (t - 1) * MemSize
ThreadCalls(t) ==
    {<<a[1] + ThreadBase(t), a[2], a[3] + ThreadBase(t), a[4]>> : a \in WholeBufferCalls}
ConcAddrs == 1..(Cardinality(Threads) * MemSize)

InitOps == {"NativeZlibDeflate.init", "NativeZlibInflate.init", "rxz_deflate_init", "rxz_inflate_init"}
FreeOps == {"NativeZlibDeflate.free", "NativeZlibInflate.free", "rxz_deflate_free", "rxz_inflate_free"}
DeflateProcessOps == {"NativeZlibDeflate.process", "rxz_deflate_process"}
InflateProcessOps == {"NativeZlibInflate.process", "rxz_inflate_process"}
ProcessOps == DeflateProcessOps \cup InflateProcessOps
ProcessOpsOf(kind) == IF kind = "deflate" THEN DeflateProcessOps ELSE InflateProcessOps

\* the entry points by name
InitOf(op, h, level, addr) ==
    CASE op = "NativeZlibDeflate.init" -> Java_com_velocitypowered_natives_compression_NativeZlibDeflate_init(h, level, addr)
      [] op = "NativeZlibInflate.init" -> Java_com_velocitypowered_natives_compression_NativeZlibInflate_init(h, addr)
      [] op = "rxz_deflate_init" -> rxz_deflate_init(h, level, addr)
      [] op = "rxz_inflate_init" -> rxz_inflate_init(h, addr)
FreeOf(kind, jni, h, ctx) ==
    CASE kind = "deflate" /\ jni -> Java_com_velocitypowered_natives_compression_NativeZlibDeflate_free(h, ctx)
      [] kind = "deflate" /\ ~jni -> rxz_deflate_free(h, ctx)
      [] kind = "inflate" /\ jni -> Java_com_velocitypowered_natives_compression_NativeZlibInflate_free(h, ctx)
      [] kind = "inflate" /\ ~jni -> rxz_inflate_free(h, ctx)
ProcessOf(op, h, m, ctx, a) ==
    CASE op = "NativeZlibDeflate.process" ->
             Java_com_velocitypowered_natives_compression_NativeZlibDeflate_process(h, m, ctx, a[1], a[2], a[3], a[4])
      [] op = "NativeZlibInflate.process" ->
             Java_com_velocitypowered_natives_compression_NativeZlibInflate_process(h, m, ctx, a[1], a[2], a[3], a[4])
      [] op = "rxz_deflate_process" -> rxz_deflate_process(h, m, ctx, a[1], a[2], a[3], a[4])
      [] op = "rxz_inflate_process" -> rxz_inflate_process(h, m, ctx, a[1], a[2], a[3], a[4])
TranslateOf(op, res) ==
    CASE op = "NativeZlibDeflate.process" -> NativeZlibDeflate_translate(res)
      [] op = "NativeZlibInflate.process" -> NativeZlibInflate_translate(res)
      [] op = "rxz_deflate_process" -> rxz_deflate_translate(res)
      [] op = "rxz_inflate_process" -> rxz_inflate_translate(res)

\* what the call leaves when nothing falls between its steps: the value
\* returned, the exception and the contents of its destination
Sequential(op, h, m, ctx, a) ==
    LET r == ProcessOf(op, h, m, ctx, a)
    IN  [ret |-> r.ret, exc |-> r.exc, out |-> from_raw_parts(r.mem, a[3], a[4])]

\* the engine takes the source up into the state of the context
engine_load(w, ctx, source_slice) == [w EXCEPT ![Deref(ctx)] = source_slice]
\* the engine is done with the call
engine_done(w, ctx) == [w EXCEPT ![Deref(ctx)] = <<>>]
\* the engine's result from the state of the context
engine_run(op, h, w, ctx, dest_len) ==
    IF op \in DeflateProcessOps
    THEN zlib_compress(h[Deref(ctx)], w[Deref(ctx)], dest_len)
    ELSE zlib_decompress(h[Deref(ctx)], w[Deref(ctx)], dest_len)
\* the internal outcome of the call
process_result(op, m, dest_ptr, r) ==
    IF op \in DeflateProcessOps THEN deflate_result(m, dest_ptr, r)
    ELSE inflate_result(m, dest_ptr, r)

InitConc ==
    /\ heap = [a \in Handles |-> NoContext]
    /\ \E fill \in [Threads -> Byte] :
           mem = [a \in ConcAddrs |->
                     IF \E t \in Threads : a - ThreadBase(t) \in 1..MaxLen
                     THEN fill[CHOOSE t \in Threads : a - ThreadBase(t) \in 1..MaxLen]
                     ELSE 0]
    /\ last = CalledPlain("none", NULL, 0, 0, NoException)
    /\ rt = NoRoundTrip
    /\ thr = [t \in Threads |-> NoFrame]
    /\ work = [a \in Handles |-> <<>>]

\* thread t creates its context, through any of the four init entry points
ThreadInit(t) ==
    /\ thr[t].pc = "none"
    /\ \E op \in InitOps, level \in {MaxLevel, MaxLevel + 1}, addr \in FreeAddrs(heap) :
           LET r == InitOf(op, heap, level, addr)
           IN  /\ heap' = r.heap
               /\ thr' = [thr EXCEPT ![t] =
                             IF r.ret # NULL
                             THEN [NoFrame EXCEPT !.pc = "ready", !.ctx = r.ret]
                             ELSE NoFrame]
    /\ UNCHANGED <<mem, last, rt, work>>

\* thread t frees its context, through either surface
ThreadFree(t) ==
    /\ thr[t].pc = "ready"
    /\ \E jni \in BOOLEAN :
           heap' = FreeOf(heap[thr[t].ctx].kind, jni, heap, thr[t].ctx)
    /\ thr' = [thr EXCEPT ![t] = NoFrame]
    /\ UNCHANGED <<mem, last, rt, work>>

\* thread t enters a process entry point of its context's kind
ProcessEnter(t) ==
    /\ thr[t].pc = "ready"
    /\ \E op \in ProcessOpsOf(heap[thr[t].ctx].kind), a \in ThreadCalls(t) :
           /\ work' = engine_load(work, thr[t].ctx, from_raw_parts(mem, a[1], AsUsize(a[2])))
           /\ thr' = [thr EXCEPT ![t] =
                         [pc |-> "running", ctx |-> thr[t].ctx, op |-> op, a |-> a,
                          expect |-> Sequential(op, heap, mem, thr[t].ctx, a),
                          got |-> NoResult]]
    /\ UNCHANGED <<heap, mem, last, rt>>

\* the call of thread t returns
ProcessReturn(t) ==
    /\ thr[t].pc = "running"
    /\ LET f == thr[t]
           r == engine_run(f.op, heap, work, f.ctx, AsUsize(f.a[4]))
           res == process_result(f.op, mem, f.a[3], r)
           tr == TranslateOf(f.op, res)
       IN  /\ mem' = res.mem
           /\ work' = engine_done(work, f.ctx)
           /\ thr' = [thr EXCEPT ![t] =
                         [f EXCEPT !.pc = "ready",
                                   !.got = [ret |-> tr.ret, exc |-> tr.exc,
                                            out |-> from_raw_parts(res.mem, f.a[3], f.a[4])]]]
    /\ UNCHANGED <<heap, last, rt>>

NextConc ==
    \E t \in Threads :
        \/ ThreadInit(t)
        \/ ThreadFree(t)
        \/ ProcessEnter(t)
        \/ ProcessReturn(t)

SpecConc == InitConc /\ [][NextConc]_vars

(***************************************************************************)
(* The properties.                                                         *)
(***************************************************************************)
DataFormatException(m) == Exception("java/util/zip/DataFormatException", m)
OutOfMemoryError == Exception("java/lang/OutOfMemoryError", "libdeflate allocate compressor")

\* how each process entry point reports the Error outcome
ErrorReported(c) ==
    CASE c.op = "rxz_deflate_process" -> c.ret = -1
      [] c.op = "rxz_inflate_process" -> c.ret = 3
      [] c.op = "NativeZlibDeflate.process" -> c.ret = 0 /\ c.exc = NoException
      [] c.op = "NativeZlibInflate.process" ->
             c.ret = JNI_FALSE /\ c.exc.class = "java/util/zip/DataFormatException"

\* C1: a process call on the null/zero handle, whatever the addresses and
\* lengths, reports the error outcome, never reaches the engine, leaves the
\* memory as it was and creates or frees no context.
C1_NullHandleProcess ==
    [][(last'.op \in ProcessOps /\ last'.ctx = NULL) =>
          /\ last'.outcome = "Error"
          /\ ErrorReported(last')
          /\ last'.engine = "none"
          /\ mem' = mem
          /\ heap' = heap
          /\ work' = work]_vars

\* a null-handle call with negative lengths, on memory that holds data
C1_Witness ==
    /\ last.op \in ProcessOps /\ last.ctx = NULL /\ last.dlen < 0
    /\ \E a \in Addrs : mem[a] # 0

\* C2: rxz_inflate_process returns one of 0, 1, 2, 3: 0 exactly when the
\* engine reported success, 1 exactly for insufficient space, 2 exactly for
\* bad data, 3 in every other case (the null handle included).
C2_InflateStatus ==
    last.op = "rxz_inflate_process" =>
        /\ last.ret \in 0..3
        /\ (last.ret = 0 <=> last.engine = "Ok")
        /\ (last.ret = 1 <=> last.engine = "InsufficientSpace")
        /\ (last.ret = 2 <=> last.engine = "BadData")
        /\ (last.ret = 3 <=> last.engine \notin {"Ok", "InsufficientSpace", "BadData"})

C2_Witness ==
    last.op = "rxz_inflate_process" /\ last.ctx # NULL /\ last.ret = 1

\* the managed decompression entry point under the messages msgs
InflateSignals(msgs) ==
    last.op = "NativeZlibInflate.process" =>
        /\ (last.ret = JNI_TRUE <=> last.outcome = "Success")
        /\ last.ret \in {JNI_TRUE, JNI_FALSE}
        /\ (last.outcome = "Success" => last.exc = NoException)
        /\ (last.outcome # "Success" => last.exc = DataFormatException(msgs[last.outcome]))

\* C3 as stated: true exactly on success; on a failure false and a
\* data-format exception whose message is "uncompressed size is inaccurate",
\* "inflate data is bad" or "unknown return code".
C3_AsStated ==
    InflateSignals([InsufficientSpace |-> "uncompressed size is inaccurate",
                    BadData |-> "inflate data is bad",
                    Error |-> "unknown return code"])

\* C3, amended: as stated, with the message of the generic error being
\* "unknown libdeflate return code".
C3_InflateSignals ==
    InflateSignals([InsufficientSpace |-> "uncompressed size is inaccurate",
                    BadData |-> "inflate data is bad",
                    Error |-> "unknown libdeflate return code"])

C3_Witness ==
    /\ last.op = "NativeZlibInflate.process" /\ last.outcome = "Error"
    /\ last.ret = JNI_FALSE /\ last.exc.msg = "unknown libdeflate return code"

\* C4: both compression entry points return n on success with n bytes
\* written, 0 <= n <= dest_len, and 0 on insufficient space; on the generic
\* error the C-ABI returns -1 and the managed surface 0; the managed
\* surface raises no exception.
C4_DeflateTranslation ==
    last.op \in DeflateProcessOps =>
        /\ (last.outcome = "Success" =>
                last.ret = last.size /\ 0 <= last.ret /\ last.ret <= last.dlen)
        /\ (last.outcome = "InsufficientSpace" => last.ret = 0)
        /\ (last.outcome = "Error" =>
                last.ret = IF last.op = "rxz_deflate_process" THEN -1 ELSE 0)
        /\ last.outcome \in {"Success", "InsufficientSpace", "Error"}
        /\ (last.op = "NativeZlibDeflate.process" => last.exc = NoException)

\* the managed surface fills a destination exactly
C4_Witness ==
    /\ last.op = "NativeZlibDeflate.process" /\ last.outcome = "Success"
    /\ last.ret = last.dlen /\ last.ret = MaxLen + 2

\* C5: create_compressor(level) yields a usable handle exactly for the
\* levels of the range: one fresh context that a process call accepts at
\* once; for the other levels no context, the null pointer and, on the
\* managed surface, the out-of-memory error with handle 0.
C5_CreateCompressor ==
    [][last'.op \in {"NativeZlibDeflate.init", "rxz_deflate_init"} =>
          IF CompressionLvl_new(last'.level)
          THEN /\ last'.ret # NULL
               /\ last'.ret \in FreeAddrs(heap)
               /\ heap' = [heap EXCEPT ![last'.ret] = DeflateContext(last'.level)]
               /\ last'.exc = NoException
               /\ last'.ret \in LiveOf(heap', "deflate")
               /\ rxz_deflate_process(heap', mem', last'.ret, PayloadBuf, MaxLen,
                                      StreamBuf, MaxLen + 2).outcome = "Success"
          ELSE /\ last'.ret = NULL
               /\ heap' = heap
               /\ last'.exc = IF last'.op = "NativeZlibDeflate.init"
                              THEN OutOfMemoryError ELSE NoException]_vars

\* the managed surface refuses the level just above the range while a
\* context lives
C5_Witness ==
    /\ last.op = "NativeZlibDeflate.init" /\ last.level = MaxLevel + 1
    /\ last.ret = 0 /\ last.exc = OutOfMemoryError
    /\ Live(heap) # {}

\* C6: freeing the null/zero handle, through any of the four free entry
\* points and in any state, fails nowhere, frees nothing and leaves every
\* context as it was.
C6_FreeNull ==
    [][(last'.op \in FreeOps /\ last'.ctx = NULL) =>
          /\ heap' = heap
          /\ mem' = mem
          /\ work' = work
          /\ last'.exc = NoException]_vars

\* the zero handle freed while every address holds a context
C6_Witness ==
    /\ last.op = "NativeZlibInflate.free" /\ last.ctx = NULL
    /\ Live(heap) = Handles

\* C7: two threads with a context each: every call returns what it returns
\* when nothing falls between its steps, and leaves the same destination;
\* the contexts of the two threads differ, and a step of one thread leaves
\* the context of the other, and the engine state in it, as they were.
C7_ConcurrentIndependence ==
    /\ [](\A t \in Threads :
              /\ (thr[t].pc = "ready" /\ thr[t].op # "" => thr[t].got = thr[t].expect)
              /\ \A u \in Threads \ {t} : thr[t].ctx # NULL => thr[u].ctx # thr[t].ctx)
    /\ [][\A t \in Threads :
              (thr'[t] = thr[t] /\ thr[t].ctx # NULL) =>
                  /\ heap'[thr[t].ctx] = heap[thr[t].ctx]
                  /\ work'[thr[t].ctx] = work[thr[t].ctx]]_vars

\* a compression has returned its bytes while the decompression of the
\* other thread is between its steps
C7_Witness ==
    \E t \in Threads, u \in Threads :
        /\ thr[t].pc = "ready" /\ thr[t].op \in DeflateProcessOps /\ thr[t].got.ret > 0
        /\ thr[u].pc = "running" /\ thr[u].op \in InflateProcessOps

\* C8: the n bytes a successful compression of S returned, decompressed
\* into a destination declared with Len(S) bytes, report success and leave
\* S in the destination.
C8_RoundTrip ==
    rt.back =>
        /\ last.op \in InflateProcessOps
        /\ last.outcome = "Success"
        /\ last.ret = IF last.op = "rxz_inflate_process" THEN 0 ELSE JNI_TRUE
        /\ rt.out = rt.S

\* a payload of full length that is not all zero went round
C8_Witness ==
    /\ rt.back /\ Len(rt.S) = MaxLen /\ Sum(rt.S) > 0
    /\ last.outcome = "Success" /\ rt.out = rt.S

\* C9: with no freed handle passed, the contexts change only by init and
\* free: a successful init adds one context at a fresh address, a free of a
\* non-null handle removes exactly that context, and process leaves every
\* context in place, so that its handle stays usable whatever the outcome.
C9_ContextOwnership ==
    [][/\ (last'.op \in InitOps /\ last'.ret # NULL) =>
              /\ last'.ret \in FreeAddrs(heap)
              /\ heap'[last'.ret] # NoContext
              /\ \A a \in Handles \ {last'.ret} : heap'[a] = heap[a]
       /\ (last'.op \in InitOps /\ last'.ret = NULL) => heap' = heap
       /\ (last'.op \in FreeOps /\ last'.ctx # NULL) =>
              /\ heap[last'.ctx] # NoContext
              /\ heap' = [heap EXCEPT ![last'.ctx] = NoContext]
       /\ (last'.op \in FreeOps /\ last'.ctx = NULL) => heap' = heap
       /\ (last'.op \in ProcessOps) =>
              /\ heap' = heap
              /\ last'.ctx # NULL => last'.ctx \in Live(heap')
       /\ (last'.op \notin InitOps \cup FreeOps) => heap' = heap]_vars

\* a process call has failed on a handle that is still live
C9_Witness ==
    /\ last.op \in ProcessOps /\ last.ctx # NULL
    /\ last.outcome \in {"InsufficientSpace", "BadData"}
    /\ last.ctx \in Live(heap)

\* C10: rxz_deflate_process returns -1 exactly for the null handle; on a
\* live handle every engine failure is the insufficient-space outcome and
\* returns 0.
C10_DeflateMinusOne ==
    last.op = "rxz_deflate_process" =>
        /\ (last.ret = -1 <=> last.ctx = NULL)
        /\ (last.ctx # NULL /\ last.engine # "Ok") =>
               last.outcome = "InsufficientSpace" /\ last.ret = 0

C10_Witness ==
    /\ last.op = "rxz_deflate_process" /\ last.ctx # NULL
    /\ last.engine = "InsufficientSpace" /\ last.ret = 0

=============================================================================
